---------------------------- MODULE Spec2Model ----------------------------
(***************************************************************************)
(* A model of the BVM model loader (src/common/src/io/BvmLoader.cpp) and   *)
(* of the BTF texture reader (src/common/src/io/ReadBtfTexture.cpp).       *)
(*                                                                         *)
(* The byte source is a sequence of cells.  One cell is one scalar field   *)
(* of the format: an integer, a float (modelled by an integer), a          *)
(* fixed-length string (modelled by the number of the name it holds) or    *)
(* one byte of a byte run.  A vector of N floats is N cells.  Offsets      *)
(* stored in a file count cells from the beginning of the source.  A read  *)
(* of n cells past the end and a seek past the end raise the reader's      *)
(* exception, as io/Reader does for bytes.                                  *)
(***************************************************************************)
EXTENDS Integers, Sequences, FiniteSets, TLC

VARIABLES
  op,          \* the entry point that was called: "load", "canParse", "readBtf"
  path,        \* canParse: the extension of the path argument
  flip,        \* readBtfTexture: bVerticalFlip
  file,        \* the byte source of the reader
  pos,         \* the reader's cursor (cells consumed from the beginning)
  pc,          \* the position in the code of the entry point
  hdr,         \* load/loadV*: version, origin, scale, counts and offsets
  seqs,        \* std::vector<BvmSeq> seqs
  flatFrames,  \* std::vector<BvmFlatFrame> flatFrames
  frameBounds, \* std::vector<vm::bbox3f::builder> frameBounds
  submeshes,   \* loadCurrent: std::vector<Submesh> submeshes
  cur,         \* the locals of the submesh being parsed and the loop counters
  surfaces,    \* std::vector<SurfaceTemp> surfaces
  model,       \* mdl::EntityModelData model (under construction)
  tex,         \* readBtfTexture: hdr, tnfo, the metadata and the mip buffer
  result,      \* what the entry point returned
  asset,       \* the logical content the byte source was written from
  run,         \* the number of the decode of this asset (1 or 2)
  prev         \* the result of the first decode of this asset

vars == <<op, path, flip, file, pos, pc, hdr, seqs, flatFrames, frameBounds,
          submeshes, cur, surfaces, model, tex, result, asset, run, prev>>

\* ------------------------------------------------------------------ bounds

MaxSeqs == 2
MaxFrames == 2
MaxSubmeshes == 2
MaxSkins == 2
MaxVerts == 2
MaxWidth == 2
MaxHeight == 3

\* --------------------------------------------------------------- constants

\* (('M' << 24) + ('V' << 16) + ('I' << 8) + 'B')
VTXMDL_IDENT == 1297500482
\* (('K' << 24) + ('S' << 16) + ('M' << 8) + 'S')
VTXMDL_SKIN_IDENT == 1263750483
\* (('H' << 24) + ('S' << 16) + ('M' << 8) + 'S')
VTXMDL_SUBMESH_IDENT == 1213418835
VTXMDL_CURRENTVERSION == 3

\* (('F' << 24) + ('T' << 16) + ('I' << 8) + 'B')
BTF_IDENT == 1179928898
\* (('M' << 24) + ('A' << 16) + ('R' << 8) + 'F')
BTF_FRAMEID == 1296126534
BTF_VER_MAJOR == 1
BTF_VER_MINOR == 0
SHA1_BUFFER_SIZE == 20
\* byte reserved[40] of frame_t
ReservedBytes == 40
\* (('A' << 24) + ('T' << 16) + ('M' << 8) + 'Q')
BTF_METAQ2 == 1096043857
\* (('T' << 24) + ('M' << 16) + ('P' << 8) + 'S')
BTF_METASPR == 1414352979

\* An ident that is none of the magic tags.
BadIdent == VTXMDL_IDENT + 1

\* ------------------------------------------------------------------ reader

\* Reader::read: n more cells can be read at cursor p of source f.
CanRead(f, p, n) == p + n <= Len(f)

\* Reader::seekFromBegin: offset o lies within source f.
CanSeek(f, o) == o <= Len(f)

\* The i-th cell (1-based) after cursor p.
Cell(f, p, i) == f[p + i]

\* Reader::readVec<float, 3> at the i-th cell after cursor p.
Vec3At(f, p, i) == <<f[p + i], f[p + i + 1], f[p + i + 2]>>

\* Reader::readVec<float, 2> at the i-th cell after cursor p.
Vec2At(f, p, i) == <<f[p + i], f[p + i + 1]>>

\* ReaderException::what() of an exhausted read or seek.
ReaderMessage == "Reader exhausted"

\* Reader::readString: the string a fixed-length name field holds.
NameOf(id) ==
  CASE id = 1 -> "idle"
    [] id = 2 -> "walk"
    [] id = 3 -> "run"
    [] id = 11 -> "body"
    [] id = 12 -> "head"
    [] id = 13 -> "tail"
    [] OTHER -> "n" \o ToString(id)

\* ------------------------------------------------------------ vector maths

\* vm::vec3f operator+
VecAdd(a, b) == <<a[1] + b[1], a[2] + b[2], a[3] + b[3]>>

\* vm::vec3f operator* (vector by scalar)
VecScale(a, s) == <<a[1] * s, a[2] * s, a[3] * s>>

Min2(a, b) == IF a <= b THEN a ELSE b
Max2(a, b) == IF a >= b THEN a ELSE b

\* vm::bbox3f::builder{}: no point added yet.
EmptyBounds == [init |-> FALSE, min |-> <<0, 0, 0>>, max |-> <<0, 0, 0>>]

\* vm::bbox3f::builder::add(point)
BoundsAddPoint(b, p) ==
  IF b.init
    THEN [init |-> TRUE,
          min |-> <<Min2(b.min[1], p[1]), Min2(b.min[2], p[2]), Min2(b.min[3], p[3])>>,
          max |-> <<Max2(b.max[1], p[1]), Max2(b.max[2], p[2]), Max2(b.max[3], p[3])>>]
    ELSE [init |-> TRUE, min |-> p, max |-> p]

\* vm::bbox3f::builder::add(begin, end): the points of ps from the k-th on.
RECURSIVE BoundsAddFrom(_, _, _)
BoundsAddFrom(b, ps, k) ==
  IF k > Len(ps) THEN b ELSE BoundsAddFrom(BoundsAddPoint(b, ps[k]), ps, k + 1)

BoundsAdd(b, ps) == BoundsAddFrom(b, ps, 1)

\* ------------------------------------------------------- the assets on disk

\* The fields every generated asset shares.
Content == [origin |-> <<1, 0, -1>>, scale |-> 2, framerate |-> 10]

\* The scale field stored for the i-th sequence (1-based): negative, positive, zero.
StoredScale(i) == CASE i % 3 = 1 -> -1 [] i % 3 = 2 -> 3 [] OTHER -> 0

\* The vertex count of the j-th submesh (1-based).
NumVertsOf(j) == ((j - 1) % MaxVerts) + 1

\* The index list of a well-formed submesh of nv vertices: one triangle, and
\* a second one when there are two vertices or more; all indices < nv.
IndicesOf(nv) ==
  IF nv = 0 THEN <<>>
  ELSE IF nv = 1 THEN <<0, 0, 0>>
  ELSE <<0, nv - 1, (nv - 1) \div 2, nv - 1, 0, nv - 1>>

\* The index list asset a stores for a submesh of nv vertices: well-formed,
\* or naming vertex nv, or of a length that is no multiple of 3.
StoredIndices(a, nv) ==
  CASE a.idx = "range" -> <<0, nv, 0>>
    [] a.idx = "odd" -> IndicesOf(nv) \o <<0>>
    [] OTHER -> IndicesOf(nv)

\* Raw (untransformed) data of vertex v (0-based) of submesh j.
RawBase(j, v) == <<v, j, 0>>
RawFrame(j, f, v) == <<v + f + 1, j, f>>
RawNormal == <<0, 0, 1>>
RawUV(j, v) == <<v, j>>

RECURSIVE Concat(_)
Concat(ss) == IF ss = <<>> THEN <<>> ELSE Head(ss) \o Concat(Tail(ss))

RECURSIVE SumSeq(_)
SumSeq(s) == IF s = <<>> THEN 0 ELSE Head(s) + SumSeq(Tail(s))

\* name[64], frames, framerate, scale
SeqEntryCells(i, frames) == <<i, frames, Content.framerate, StoredScale(i)>>

SeqTableCells(seqFrames) ==
  Concat([i \in 1 .. Len(seqFrames) |-> SeqEntryCells(i, seqFrames[i])])

\* ident, diffuse[64], interior[64], emission[64], emission scale
SkinBlockCells(j, k, bad) ==
  <<IF bad THEN BadIdent ELSE VTXMDL_SKIN_IDENT, 20 + 10 * j + k, 0, 0, 1>>

SkinChainCells(j, nskins, badSkin) ==
  Concat([k \in 1 .. nskins |-> SkinBlockCells(j, k, badSkin = <<j, k>>)])

\* position, normal, uv of every vertex (v1 and v2 base block)
BaseVertCells(j, nv) ==
  Concat([i \in 1 .. nv |-> RawBase(j, i - 1) \o RawNormal \o RawUV(j, i - 1)])

\* position, normal of every vertex, for each of F flat frames
AnimCells(j, nv, F) ==
  Concat([x \in 1 .. F * nv |->
            RawFrame(j, (x - 1) \div nv, (x - 1) % nv) \o RawNormal])

UVCells(j, nv) == Concat([i \in 1 .. nv |-> RawUV(j, i - 1)])

IdentCell(bad, good) == IF bad THEN BadIdent ELSE good

\* The v1 image of asset a.
FileV1(a) ==
  <<IdentCell(a.badModel, VTXMDL_IDENT), a.version, 11, 0, 0, 1>>
    \o Content.origin
    \o <<Content.scale, a.nverts, Len(StoredIndices(a, a.nverts)), 0, 0>>
    \o StoredIndices(a, a.nverts)
    \o BaseVertCells(1, a.nverts)

\* One v2 submesh block: header, skins, indices, base vertices, frames.
SubmeshV2Cells(a, j) ==
  LET nv == NumVertsOf(j)
      F == SumSeq(a.seqFrames)
  IN  <<IdentCell(a.badSub = j, VTXMDL_SUBMESH_IDENT), 10 + j, 0, 0, 1,
        Len(StoredIndices(a, nv)), nv, a.subSkins[j]>>
        \o SkinChainCells(j, a.subSkins[j], a.badSkin)
        \o StoredIndices(a, nv)
        \o BaseVertCells(j, nv)
        \o (IF Len(a.seqFrames) = 0 THEN <<>> ELSE AnimCells(j, nv, F))

\* The v2 image of asset a.
FileV2(a) ==
  <<IdentCell(a.badModel, VTXMDL_IDENT), a.version>>
    \o Content.origin
    \o <<Content.scale, Len(a.subSkins), Len(a.seqFrames), 0>>
    \o SeqTableCells(a.seqFrames)
    \o Concat([j \in 1 .. Len(a.subSkins) |-> SubmeshV2Cells(a, j)])

\* Header cells of a v3 image: ident, version, origin, scale, flags, mins, maxs
\* and three (count, offset) pairs.
HeaderCellsV3 == 19
DescriptorCells == 8

\* The sections of a v3 image in canonical order: the sequence table, the
\* submesh table and, per submesh, its skins, UVs, indices and frames.
SectionsV3(a) ==
  <<[k |-> "seq", j |-> 0], [k |-> "sub", j |-> 0]>>
    \o Concat([j \in 1 .. Len(a.subSkins) |->
                 <<[k |-> "skin", j |-> j], [k |-> "uv", j |-> j],
                   [k |-> "idx", j |-> j], [k |-> "anim", j |-> j]>>])

SectionSize(a, s) ==
  CASE s.k = "seq" -> 4 * Len(a.seqFrames)
    [] s.k = "sub" -> DescriptorCells * Len(a.subSkins)
    [] s.k = "skin" -> 5 * a.subSkins[s.j]
    [] s.k = "uv" -> 2 * NumVertsOf(s.j)
    [] s.k = "idx" -> Len(StoredIndices(a, NumVertsOf(s.j)))
    [] OTHER -> 6 * NumVertsOf(s.j) * SumSeq(a.seqFrames)

\* The physical order of n sections under layout lay: the canonical order,
\* reversed if lay.rev, then rotated by lay.rot.
PhysicalOrder(n, lay) ==
  [i \in 1 .. n |->
     LET r == ((i - 1 + lay.rot) % n) + 1
     IN  IF lay.rev THEN n + 1 - r ELSE r]

\* The offset of section number x (canonical numbering) under order ord.
SectionOffset(a, ord, x) ==
  LET secs == SectionsV3(a)
      place == CHOOSE i \in 1 .. Len(ord) : ord[i] = x
  IN  HeaderCellsV3
        + SumSeq([i \in 1 .. place - 1 |-> SectionSize(a, secs[ord[i]])])

SectionNumber(a, k, j) ==
  CHOOSE x \in 1 .. Len(SectionsV3(a)) : SectionsV3(a)[x] = [k |-> k, j |-> j]

OffsetOf(a, k, j) ==
  SectionOffset(a, PhysicalOrder(Len(SectionsV3(a)), a.lay), SectionNumber(a, k, j))

DescriptorV3Cells(a, j) ==
  LET nv == NumVertsOf(j)
  IN  <<IdentCell(a.badSub = j, VTXMDL_SUBMESH_IDENT),
        a.subSkins[j], OffsetOf(a, "skin", j),
        nv, OffsetOf(a, "uv", j),
        Len(StoredIndices(a, nv)), OffsetOf(a, "idx", j),
        OffsetOf(a, "anim", j)>>

SectionCells(a, s) ==
  CASE s.k = "seq" -> SeqTableCells(a.seqFrames)
    [] s.k = "sub" -> Concat([j \in 1 .. Len(a.subSkins) |-> DescriptorV3Cells(a, j)])
    [] s.k = "skin" -> SkinChainCells(s.j, a.subSkins[s.j], a.badSkin)
    [] s.k = "uv" -> UVCells(s.j, NumVertsOf(s.j))
    [] s.k = "idx" -> StoredIndices(a, NumVertsOf(s.j))
    [] OTHER -> AnimCells(s.j, NumVertsOf(s.j), SumSeq(a.seqFrames))

\* The v3 image of asset a: the header, then the sections in physical order.
FileV3(a) ==
  LET secs == SectionsV3(a)
      ord == PhysicalOrder(Len(secs), a.lay)
  IN  <<IdentCell(a.badModel, VTXMDL_IDENT), a.version>>
        \o Content.origin
        \o <<Content.scale, 0, 0, 0, 0, 0, 0, 0,
             Len(a.seqFrames), OffsetOf(a, "seq", 0),
             Len(a.subSkins), OffsetOf(a, "sub", 0),
             0, 0>>
        \o Concat([i \in 1 .. Len(secs) |-> SectionCells(a, secs[ord[i]])])

\* The image of asset a in the layout its version field selects, cut to a.cut
\* cells when a.cut >= 0.
FullFile(a) ==
  CASE a.version = 1 -> FileV1(a)
    [] a.version = 2 -> FileV2(a)
    [] OTHER -> FileV3(a)

FileOf(a) ==
  IF a.cut >= 0 /\ a.cut < Len(FullFile(a))
    THEN SubSeq(FullFile(a), 1, a.cut)
    ELSE FullFile(a)

\* ------------------------------------------------------ the model container

NoModel == [pitch |-> "none", orientation |-> "none", surfaces |-> <<>>, frames |-> <<>>]

\* mdl::EntityModelData{mdl::PitchType::Normal, mdl::Orientation::Oriented}
NewModel ==
  [pitch |-> "Normal", orientation |-> "Oriented", surfaces |-> <<>>, frames |-> <<>>]

\* EntityModelData::addSurface(name, frameCount)
AddSurface(m, name, frameCount) ==
  [m EXCEPT !.surfaces =
     Append(@, [name |-> name, frameCount |-> frameCount,
                skins |-> <<>>, meshes |-> <<>>])]

\* EntityModelData::addFrame(name, bounds)
AddFrame(m, name, bounds) ==
  [m EXCEPT !.frames =
     Append(@, [name |-> name, bounds |-> bounds, index |-> Len(m.frames)])]

\* EntityModelSurface::addMesh(frame, vertices, indices) on surface s (1-based)
AddMesh(m, s, frameIndex, vertices) ==
  [m EXCEPT !.surfaces[s].meshes =
     Append(@, [frame |-> frameIndex, vertices |-> vertices])]

\* loadSkins: one material per skin name, in order, set on surface s.
LoadSkins(m, s, skins) == [m EXCEPT !.surfaces[s].skins = skins]

NoTexture ==
  [width |-> 0, height |-> 0, format |-> "none", mask |-> "none", flags |-> 0,
   contents |-> 0, lightvalue |-> 0, buffers |-> <<>>]

\* ------------------------------------------------------------------ results

Ok(m) == [kind |-> "ok", value |-> TRUE, msg |-> "", arg |-> 0, model |-> m, texture |-> NoTexture]

OkTexture(t) == [kind |-> "ok", value |-> TRUE, msg |-> "", arg |-> 0, model |-> NoModel, texture |-> t]

Error(msg, arg) ==
  [kind |-> "error", value |-> FALSE, msg |-> msg, arg |-> arg, model |-> NoModel, texture |-> NoTexture]

\* A plain bool returned by canParse.
Bool(b) ==
  [kind |-> "bool", value |-> b, msg |-> "", arg |-> 0, model |-> NoModel,
   texture |-> NoTexture]

\* An exception that leaves the entry point.
Propagated(msg) ==
  [kind |-> "exception", value |-> FALSE, msg |-> msg, arg |-> 0, model |-> NoModel, texture |-> NoTexture]

NoResult ==
  [kind |-> "none", value |-> FALSE, msg |-> "", arg |-> 0, model |-> NoModel, texture |-> NoTexture]

\* A crash of the process (an outcome of undefined behaviour).
Crashed ==
  [kind |-> "crash", value |-> FALSE, msg |-> "", arg |-> 0, model |-> NoModel, texture |-> NoTexture]

\* load without its catch clause: the ReaderException leaves load.
LoadNoCatch == Propagated(ReaderMessage)

\* catch (const ReaderException& e) { return Error{e.what()}; } of load
LoadCatch == Error(ReaderMessage, 0)

\* "textures/models/{}.btf"
SkinPath(name) == "textures/models/" \o name \o ".btf"

\* The frame number formatted without padding: {}
Unpadded(f) == ToString(f)

\* {:03}
Pad3(f) ==
  IF f < 10 THEN "00" \o ToString(f)
  ELSE IF f < 100 THEN "0" \o ToString(f)
  ELSE ToString(f)

\* fmt::format("{}_{:03}", seqs[s].name, f)
FrameName(name, f) == name \o "_" \o Pad3(f)

\* fmt::format("submesh_{}", smi)
SubmeshName(smi) == "submesh_" \o ToString(smi)

\* (pos + origin) * scale
Transform(p, origin, scale) == VecScale(VecAdd(p, origin), scale)

\* The number of index triples the loop `for (i = 0; i < num_indices; i += 3)` reads.
NumTriples(num_indices) == (num_indices + 2) \div 3

\* An element read outside a vector: what such a read may yield.
Junk == <<<<0, 0, 0>>, <<0, 0>>>>

\* Every index of every triangle is an element of a vector of n elements.
InRange(triangles, n) ==
  \A t \in 1 .. Len(triangles) : \A j \in 1 .. 3 : triangles[t][j] < n

\* verts[vertIndex], uvs[vertIndex] of one triangle corner
Corner(verts, uvs, i) ==
  <<IF i < Len(verts) THEN verts[i + 1] ELSE Junk[1],
    IF i < Len(uvs) THEN uvs[i + 1] ELSE Junk[2]>>

\* makeFrameTriangles: for each triangle, the (pos, uv) pairs of its three
\* stored indices, in stored order.
MakeFrameTriangles(triangles, verts, uvs) ==
  Concat([t \in 1 .. Len(triangles) |->
            <<Corner(verts, uvs, triangles[t][1]),
              Corner(verts, uvs, triangles[t][2]),
              Corner(verts, uvs, triangles[t][3])>>])

\* ------------------------------------------------------------ initial state

NoHdr ==
  [version |-> 0, called |-> <<>>, origin |-> <<0, 0, 0>>, scale |-> 0,
   num_submeshes |-> 0, num_sequences |-> 0, Ftotal |-> 0]

NoCur ==
  [smi |-> 0, sk |-> 0, fi |-> 0, si |-> 0,
   num_skins |-> 0, num_indices |-> 0, num_verts |-> 0,
   sm_skins |-> <<>>, triangles |-> <<>>, verts |-> <<>>, uvs |-> <<>>,
   frameTriangles |-> <<>>, bounds |-> EmptyBounds]

NoTex ==
  [ver_major |-> 0, ver_minor |-> 0, width |-> 0, height |-> 0,
   compressiontype |-> 0, frame_count |-> 0,
   framedatasize |-> 0, framedataoffset |-> 0, metadatasize |-> 0,
   metadataoffset |-> 0, surfaceflags |-> 0, contents |-> 0, value |-> 0,
   buffers |-> <<>>]

NoAsset ==
  [version |-> 0, badModel |-> FALSE, nverts |-> 0, seqFrames |-> <<>>,
   subSkins |-> <<>>, badSub |-> 0, badSkin |-> <<0, 0>>, cut |-> -1,
   lay |-> [rev |-> FALSE, rot |-> 0], idx |-> "ok"]

\* Sequences over S of length 0 .. n.
SeqsUpTo(S, n) == UNION {[1 .. k -> S] : k \in 0 .. n}

\* Lists of n submeshes with the same number of skins each.
UniformSkins == {[j \in 1 .. n |-> k] : n \in 0 .. MaxSubmeshes, k \in 0 .. MaxSkins}

\* Sequence tables of n sequences of one frame each.
UniformSeqs == {[i \in 1 .. n |-> 1] : n \in 0 .. MaxSeqs}

\* Well-formed assets: every sequence table with uniform submeshes, and
\* every list of submeshes with a uniform sequence table.
WellFormedAssets ==
  {[NoAsset EXCEPT !.version = 1, !.nverts = nv] : nv \in 0 .. MaxVerts}
    \cup {[NoAsset EXCEPT !.version = v, !.seqFrames = sf, !.subSkins = ss] :
            v \in {2, 3},
            sf \in SeqsUpTo(0 .. MaxFrames, MaxSeqs),
            ss \in UniformSkins}
    \cup {[NoAsset EXCEPT !.version = v, !.seqFrames = sf, !.subSkins = ss] :
            v \in {2, 3},
            sf \in UniformSeqs,
            ss \in SeqsUpTo(0 .. MaxSkins, MaxSubmeshes)}

\* The assets that faults are put into: one frame per sequence, the same
\* number of skins in every submesh.
PlainAssets ==
  {[NoAsset EXCEPT !.version = 1, !.nverts = nv] : nv \in 0 .. MaxVerts}
    \cup {[NoAsset EXCEPT !.version = v,
                          !.seqFrames = [i \in 1 .. ns |-> 1],
                          !.subSkins = [j \in 1 .. nsub |-> nsk]] :
            v \in {2, 3}, ns \in 0 .. MaxSeqs,
            nsub \in 0 .. MaxSubmeshes, nsk \in 0 .. MaxSkins}

\* An asset with altered idents: the model's, one submesh's, one skin's.
IdentFaults(a) ==
  {[a EXCEPT !.badModel = bm, !.badSub = bs, !.badSkin = bk] :
     bm \in BOOLEAN,
     bs \in 0 .. Len(a.subSkins),
     bk \in {<<0, 0>>} \cup
            {<<j, k>> \in (1 .. Len(a.subSkins)) \X (1 .. MaxSkins) :
                k <= a.subSkins[j]}}

\* An asset cut short at every length.
Truncations(a) == {[a EXCEPT !.cut = c] : c \in 0 .. Len(FullFile(a)) - 1}

\* An asset whose index lists name a vertex beyond the vertex count, or
\* whose index counts are no multiple of 3.
IndexFaults(a) == {[a EXCEPT !.idx = x] : x \in {"range", "odd"}}

\* The length of a sequence whose frame numbers run to three digits.
LongSequence == 101

\* Assets of one long sequence and no submesh.
LongAssets ==
  {[NoAsset EXCEPT !.version = v, !.seqFrames = <<LongSequence>>] : v \in {2, 3}}

\* Assets of three one-frame sequences, whose stored scales are negative,
\* positive and zero, and one submesh.
ScaledAssets ==
  {[NoAsset EXCEPT !.version = v, !.seqFrames = <<1, 1, 1>>, !.subSkins = <<0>>] :
     v \in {2, 3}}

\* Version fields other than 1, 2, 3 on a v3 image.
OtherVersions == {-2147483647 - 1, -1, 0, 4, 5, 2147483647}

VersionAssets ==
  {[NoAsset EXCEPT !.version = v, !.badModel = bm,
                   !.seqFrames = <<1>>, !.subSkins = <<1>>] :
     v \in OtherVersions, bm \in BOOLEAN}

LoadAssets ==
  WellFormedAssets
    \cup UNION {IdentFaults(a) : a \in PlainAssets}
    \cup UNION {Truncations(a) : a \in PlainAssets}
    \cup UNION {IndexFaults(a) : a \in PlainAssets}
    \cup LongAssets
    \cup ScaledAssets
    \cup VersionAssets

InitLocals ==
  /\ hdr = NoHdr
  /\ seqs = <<>>
  /\ flatFrames = <<>>
  /\ frameBounds = <<>>
  /\ submeshes = <<>>
  /\ cur = NoCur
  /\ surfaces = <<>>
  /\ model = NoModel
  /\ tex = NoTex
  /\ result = NoResult
  /\ pos = 0

\* BvmLoader{name, reader, fs}.load(logger) is called on the image of an asset.
InitLoad ==
  /\ op = "load"
  /\ asset \in LoadAssets
  /\ file = FileOf(asset)
  /\ path = ""
  /\ flip = FALSE
  /\ pc = "load"
  /\ run = 1
  /\ prev = NoResult
  /\ InitLocals

\* ------------------------------------------------------------------- load

Return(res) ==
  /\ pc' = "done"
  /\ result' = res

\* version > BvmLayout::VTXMDL_CURRENTVERSION, with the off-by-one slip >=
VersionUnsupportedAtCurrent(version) == version >= VTXMDL_CURRENTVERSION

\* version > BvmLayout::VTXMDL_CURRENTVERSION
VersionUnsupported(version) == version > VTXMDL_CURRENTVERSION

\* switch (version): case 1, case 2, case 3 and default
Dispatch(version) ==
  CASE version = 1 -> "loadV1"
    [] version = 2 -> "loadV2"
    [] OTHER -> "loadCurrent"

\* BvmLoader::load: ident, version, the two checks and the dispatch.
Load ==
  /\ pc = "load"
  /\ UNCHANGED <<op, path, flip, file, seqs, flatFrames, frameBounds, submeshes,
                 cur, surfaces, model, tex, asset, run, prev>>
  /\ IF ~CanRead(file, 0, 2)
       THEN Return(LoadCatch) /\ UNCHANGED <<pos, hdr>>
       ELSE LET ident == Cell(file, 0, 1)
                version == Cell(file, 0, 2)
            IN  IF ident # VTXMDL_IDENT
                  THEN Return(Error("Unknown BVM model ident: ", ident))
                       /\ UNCHANGED <<pos, hdr>>
                ELSE IF VersionUnsupported(version)
                  THEN Return(Error("Unknown BVM model version: ", version))
                       /\ UNCHANGED <<pos, hdr>>
                ELSE /\ pos' = 2
                     /\ result' = result
                     /\ pc' = Dispatch(version)
                     /\ hdr' = [hdr EXCEPT !.version = version,
                                           !.called = Append(@, pc')]

\* ------------------------------------------------------------------ loadV1

\* loadV1: the header fields, the index triples and the vertices.
V1Parse ==
  /\ pc = "loadV1"
  /\ UNCHANGED <<op, path, flip, file, seqs, flatFrames, frameBounds, submeshes,
                 surfaces, model, tex, asset, run, prev>>
  /\ IF ~CanRead(file, pos, 12)
       THEN Return(LoadCatch) /\ UNCHANGED <<pos, hdr, cur>>
       ELSE LET base_texture == NameOf(Cell(file, pos, 1))
                origin == Vec3At(file, pos, 5)
                scale == Cell(file, pos, 8)
                num_verts == Cell(file, pos, 9)
                num_indices == Cell(file, pos, 10)
                ntri == NumTriples(num_indices)
                ipos == pos + 12
                vpos == ipos + 3 * ntri
            IN  IF ~CanRead(file, ipos, 3 * ntri + 8 * num_verts)
                  THEN Return(LoadCatch) /\ UNCHANGED <<pos, hdr, cur>>
                  ELSE /\ pos' = vpos + 8 * num_verts
                       /\ hdr' = [hdr EXCEPT !.origin = origin, !.scale = scale]
                       /\ cur' = [cur EXCEPT
                            !.num_verts = num_verts,
                            !.num_indices = num_indices,
                            !.sm_skins = <<SkinPath(base_texture)>>,
                            !.triangles =
                               [t \in 1 .. ntri |-> Vec3At(file, ipos, 3 * (t - 1) + 1)],
                            !.verts =
                               [i \in 1 .. num_verts |->
                                  Transform(Vec3At(file, vpos, 8 * (i - 1) + 1),
                                            origin, scale)],
                            !.uvs =
                               [i \in 1 .. num_verts |->
                                  Vec2At(file, vpos, 8 * (i - 1) + 7)]]
                       /\ pc' = "v1_surface"
                       /\ result' = result

\* loadV1: the model, its one surface with its skin, the bounds and the
\* vertex stream of the one frame.
V1Surface ==
  /\ pc = "v1_surface"
  /\ UNCHANGED <<op, path, flip, file, pos, hdr, seqs, flatFrames, frameBounds,
                 submeshes, surfaces, tex, asset, run, prev>>
  /\ \E outcome \in IF InRange(cur.triangles, cur.num_verts)
                      THEN {"defined"} ELSE {"junk", "crash"} :
       IF outcome = "crash"
         THEN Return(Crashed) /\ UNCHANGED <<model, cur>>
         ELSE /\ model' = LoadSkins(AddSurface(NewModel, "model", 1), 1, cur.sm_skins)
              /\ cur' = [cur EXCEPT
                   !.bounds = BoundsAdd(EmptyBounds, cur.verts),
                   !.frameTriangles =
                      MakeFrameTriangles(cur.triangles, cur.verts, cur.uvs)]
              /\ pc' = "v1_frame"
              /\ result' = result

\* loadV1: model.addFrame("staticpose", bounds.bounds())
V1AddFrame ==
  /\ pc = "v1_frame"
  /\ UNCHANGED <<op, path, flip, file, pos, hdr, seqs, flatFrames, frameBounds,
                 submeshes, cur, surfaces, tex, result, asset, run, prev>>
  /\ model' = AddFrame(model, "staticpose", cur.bounds)
  /\ pc' = "v1_mesh"

\* loadV1: surface.addMesh(frame, ...); return model
V1AddMesh ==
  /\ pc = "v1_mesh"
  /\ UNCHANGED <<op, path, flip, file, pos, hdr, seqs, flatFrames, frameBounds,
                 submeshes, cur, surfaces, tex, asset, run, prev>>
  /\ model' = AddMesh(model, 1, model.frames[Len(model.frames)].index,
                      cur.frameTriangles)
  /\ Return(Ok(model'))

\* ----------------------------------------------- sequences and flat frames

\* The scale of a sequence used as it is stored.
SeqScaleAsStored(scale) == scale

\* if (seq.scale <= 0) seq.scale = 1.f
EffectiveSeqScale(scale) == IF scale <= 0 THEN 1 ELSE scale

\* The sequence table: name, frames, framerate, scale of n sequences at
\* cursor p, a scale <= 0 replaced by 1.
ReadSeqs(f, p, n) ==
  [i \in 1 .. n |->
     LET scale == Cell(f, p, 4 * (i - 1) + 4)
     IN  [name |-> NameOf(Cell(f, p, 4 * (i - 1) + 1)),
          frames |-> Cell(f, p, 4 * (i - 1) + 2),
          framerate |-> Cell(f, p, 4 * (i - 1) + 3),
          scale |-> EffectiveSeqScale(scale)]]

\* seqs.push_back({"staticpose", 1, 10, 1.f})
StaticPoseSeq == [name |-> "staticpose", frames |-> 1, framerate |-> 10, scale |-> 1]

\* Ftotal += seqs[s].frames
TotalFrames(ss) == SumSeq([s \in 1 .. Len(ss) |-> ss[s].frames])

\* flatFrames.push_back({s, f, fmt::format("{}_{:03}", seqs[s].name, f)})
FlattenSeqs(ss) ==
  Concat([s \in 1 .. Len(ss) |->
            [f \in 1 .. ss[s].frames |->
               [seq |-> s - 1, inSeq |-> f - 1,
                name |-> FrameName(ss[s].name, f - 1)]]])

\* flatFrames.push_back({0, 0, "staticpose"})
StaticPoseFrames == <<[seq |-> 0, inSeq |-> 0, name |-> "staticpose"]>>

\* The scale of the sequence that owns flat frame f (1-based): the loops over
\* si and fi visit the flat frames in the order of FlattenSeqs.
SeqScaleOf(ss, f) == ss[FlattenSeqs(ss)[f].seq + 1].scale

\* One position + normal block per flat frame at cursor p:
\* posDest[vi] = (pos + origin) * (scale * seqs[si].scale)
ReadFrames(f, p, ss, nv, origin, scale) ==
  [x \in 1 .. TotalFrames(ss) |->
     [vi \in 1 .. nv |->
        Transform(Vec3At(f, p, 6 * ((x - 1) * nv + (vi - 1)) + 1),
                  origin, scale * SeqScaleOf(ss, x))]]

\* The bounds of each flat frame taken from the last submesh alone.
FrameBoundsOfOneSubmesh(fb, perFramePos) ==
  [x \in 1 .. Len(fb) |-> BoundsAdd(EmptyBounds, perFramePos[x])]

\* frameBounds[flatIdx].add(posDest.begin(), posDest.end()) for every flat frame
AddToFrameBounds(fb, perFramePos) ==
  [x \in 1 .. Len(fb) |-> BoundsAdd(fb[x], perFramePos[x])]

\* Index triples at cursor p, stored in stream order.
ReadTriangles(f, p, ntri) == [t \in 1 .. ntri |-> Vec3At(f, p, 3 * (t - 1) + 1)]

\* ------------------------------------------------------------------ loadV2

\* loadV2: origin, scale, the counts, the sequence table, the flat frames.
V2Header ==
  /\ pc = "loadV2"
  /\ UNCHANGED <<op, path, flip, file, submeshes, surfaces, tex, asset, run, prev>>
  /\ IF ~CanRead(file, pos, 7)
       THEN Return(LoadCatch)
            /\ UNCHANGED <<pos, hdr, seqs, flatFrames, frameBounds, cur, model>>
       ELSE LET origin == Vec3At(file, pos, 1)
                scale == Cell(file, pos, 4)
                num_submeshes == Cell(file, pos, 5)
                num_sequences == Cell(file, pos, 6)
                spos == pos + 7
            IN  IF num_sequences # 0 /\ ~CanRead(file, spos, 4 * num_sequences)
                  THEN Return(LoadCatch)
                       /\ UNCHANGED <<pos, hdr, seqs, flatFrames, frameBounds, cur, model>>
                  ELSE /\ seqs' = IF num_sequences = 0
                                    THEN <<StaticPoseSeq>>
                                    ELSE ReadSeqs(file, spos, num_sequences)
                       /\ pos' = IF num_sequences = 0 THEN spos
                                 ELSE spos + 4 * num_sequences
                       /\ flatFrames' = IF num_sequences = 0
                                          THEN StaticPoseFrames
                                          ELSE FlattenSeqs(seqs')
                       /\ frameBounds' = [x \in 1 .. TotalFrames(seqs') |-> EmptyBounds]
                       /\ hdr' = [hdr EXCEPT !.origin = origin, !.scale = scale,
                                             !.num_submeshes = num_submeshes,
                                             !.num_sequences = num_sequences,
                                             !.Ftotal = TotalFrames(seqs')]
                       /\ model' = NewModel
                       /\ cur' = [cur EXCEPT !.smi = 0]
                       /\ pc' = IF num_submeshes > 0 THEN "v2_submesh"
                                ELSE IF hdr'.Ftotal > 0 THEN "v2_frames"
                                ELSE "v2_return"
                       /\ result' = result

\* The skin ident check left out.
SkinIdentUnchecked(sk_ident) == FALSE

\* sk_ident != BvmLayout::VTXMDL_SKIN_IDENT
SkinIdentBad(sk_ident) == sk_ident # VTXMDL_SKIN_IDENT

\* ident != BvmLayout::VTXMDL_SUBMESH_IDENT
SubmeshIdentBad(ident) == ident # VTXMDL_SUBMESH_IDENT

\* loadV2: the ident of submesh smi, its names and its counts; skin 0.
V2Submesh ==
  /\ pc = "v2_submesh"
  /\ UNCHANGED <<op, path, flip, file, hdr, seqs, flatFrames, frameBounds,
                 submeshes, surfaces, model, tex, asset, run, prev>>
  /\ IF ~CanRead(file, pos, 1)
       THEN Return(LoadCatch) /\ UNCHANGED <<pos, cur>>
     ELSE IF SubmeshIdentBad(Cell(file, pos, 1))
       THEN Return(Error("Unknown BVM submesh ident: ", Cell(file, pos, 1)))
            /\ UNCHANGED <<pos, cur>>
     ELSE IF ~CanRead(file, pos + 1, 7)
       THEN Return(LoadCatch) /\ UNCHANGED <<pos, cur>>
     ELSE /\ pos' = pos + 8
          /\ cur' = [cur EXCEPT
               !.num_indices = Cell(file, pos, 6),
               !.num_verts = Cell(file, pos, 7),
               !.num_skins = Cell(file, pos, 8),
               !.sm_skins = <<NameOf(Cell(file, pos, 2))>>,
               !.sk = 0]
          /\ pc' = IF cur'.num_skins > 0 THEN "v2_skin" ELSE "v2_geometry"
          /\ result' = result

\* loadV2: embedded skin block sk of submesh smi.
V2Skin ==
  /\ pc = "v2_skin"
  /\ UNCHANGED <<op, path, flip, file, hdr, seqs, flatFrames, frameBounds,
                 submeshes, surfaces, model, tex, asset, run, prev>>
  /\ IF ~CanRead(file, pos, 1)
       THEN Return(LoadCatch) /\ UNCHANGED <<pos, cur>>
     ELSE IF SkinIdentBad(Cell(file, pos, 1))
       THEN Return(Error("Unknown BVM skin ident: ", Cell(file, pos, 1)))
            /\ UNCHANGED <<pos, cur>>
     ELSE IF ~CanRead(file, pos + 1, 4)
       THEN Return(LoadCatch) /\ UNCHANGED <<pos, cur>>
     ELSE /\ pos' = pos + 5
          /\ cur' = [cur EXCEPT
               !.sm_skins = Append(@, SkinPath(NameOf(Cell(file, pos, 2)))),
               !.sk = @ + 1]
          /\ pc' = IF cur'.sk < cur.num_skins THEN "v2_skin" ELSE "v2_geometry"
          /\ result' = result

\* The loop over the submeshes stopping one submesh early.
SubmeshLoopStopsEarly(smi, n) == smi + 1 < n

\* for (smi = 0; smi < num_submeshes; smi++): after ++smi, the loop goes on.
SubmeshLoopContinues(smi, n) == smi < n

\* loadV2: the triangles, the base vertices, the surface and its skins, the
\* per-frame positions and the frame bounds of submesh smi.
V2Geometry ==
  /\ pc = "v2_geometry"
  /\ UNCHANGED <<op, path, flip, file, hdr, seqs, flatFrames, submeshes, tex,
                 asset, run, prev>>
  /\ LET ntri == NumTriples(cur.num_indices)
         nv == cur.num_verts
         vpos == pos + 3 * ntri
         fpos == vpos + 8 * nv
         fcells == IF hdr.num_sequences = 0 THEN 0 ELSE 6 * nv * hdr.Ftotal
         sm_basepos == [i \in 1 .. nv |->
                          Transform(Vec3At(file, vpos, 8 * (i - 1) + 1),
                                    hdr.origin, hdr.scale)]
         sm_uvs == [i \in 1 .. nv |-> Vec2At(file, vpos, 8 * (i - 1) + 7)]
         perFramePos == IF hdr.num_sequences = 0
                          THEN <<sm_basepos>>
                          ELSE ReadFrames(file, fpos, seqs, nv, hdr.origin, hdr.scale)
     IN  IF ~CanRead(file, pos, 3 * ntri + 8 * nv + fcells)
           THEN Return(LoadCatch)
                /\ UNCHANGED <<pos, frameBounds, cur, surfaces, model>>
           ELSE /\ pos' = fpos + fcells
                /\ model' = LoadSkins(
                              AddSurface(model, SubmeshName(cur.smi), hdr.Ftotal),
                              Len(model.surfaces) + 1, cur.sm_skins)
                /\ surfaces' = Append(surfaces,
                     [name |-> SubmeshName(cur.smi),
                      triangles |-> ReadTriangles(file, pos, ntri),
                      uvs |-> sm_uvs,
                      perFramePos |-> perFramePos,
                      surface |-> Len(model.surfaces) + 1])
                /\ frameBounds' = AddToFrameBounds(frameBounds, perFramePos)
                /\ cur' = [cur EXCEPT !.smi = @ + 1, !.fi = 0, !.si = 0]
                /\ pc' = IF SubmeshLoopContinues(cur'.smi, hdr.num_submeshes)
                           THEN "v2_submesh"
                         ELSE IF hdr.Ftotal > 0 THEN "v2_frames"
                         ELSE "v2_return"
                /\ result' = result

\* The loop over the frames stopping one frame early: i < Ftotal - 1.
FrameLoopStopsEarly(i, Ftotal) == i + 2 < Ftotal

\* for (i = 0; i < Ftotal; ++i): after the body for i, the loop goes on.
FrameLoopContinues(i, Ftotal) == i + 1 < Ftotal

\* frames.push_back(&model.addFrame(flatFrames[i].name, frameBounds[i].bounds()))
AddFrameStep(after, back) ==
  /\ UNCHANGED <<op, path, flip, file, pos, hdr, seqs, flatFrames, frameBounds,
                 submeshes, surfaces, tex, result, asset, run, prev>>
  /\ model' = AddFrame(model, flatFrames[cur.fi + 1].name, frameBounds[cur.fi + 1])
  /\ cur' = [cur EXCEPT
       !.fi = IF FrameLoopContinues(cur.fi, hdr.Ftotal) THEN cur.fi + 1 ELSE 0]
  /\ pc' = IF FrameLoopContinues(cur.fi, hdr.Ftotal) THEN pc
           ELSE IF Len(surfaces) > 0 THEN after
           ELSE back

\* The vertex stream of surface si for frame fi, and
\* surf.surface->addMesh(*frames[fi], frameVerts, rangeMap)
AddMeshStep(back) ==
  /\ UNCHANGED <<op, path, flip, file, pos, hdr, seqs, flatFrames, frameBounds,
                 submeshes, surfaces, tex, asset, run, prev>>
  /\ LET surf == surfaces[cur.si + 1]
         posf == surf.perFramePos[cur.fi + 1]
     IN  \E outcome \in IF InRange(surf.triangles, Len(posf))
                             /\ InRange(surf.triangles, Len(surf.uvs))
                          THEN {"defined"} ELSE {"junk", "crash"} :
           IF outcome = "crash"
             THEN Return(Crashed) /\ UNCHANGED <<model, cur>>
             ELSE /\ model' = AddMesh(model, surf.surface,
                                      model.frames[cur.fi + 1].index,
                                      MakeFrameTriangles(surf.triangles, posf, surf.uvs))
                  /\ cur' = [cur EXCEPT
                       !.fi = IF FrameLoopContinues(cur.fi, hdr.Ftotal)
                                THEN cur.fi + 1 ELSE 0,
                       !.si = IF FrameLoopContinues(cur.fi, hdr.Ftotal)
                                THEN cur.si ELSE cur.si + 1]
                  /\ pc' = IF cur'.si < Len(surfaces) THEN pc ELSE back
                  /\ result' = result

\* loadV2: the loop that adds the frames.
V2AddFrame == pc = "v2_frames" /\ AddFrameStep("v2_meshes", "v2_return")

\* loadV2: the loops that add each surface's per-frame mesh.
V2AddMesh == pc = "v2_meshes" /\ AddMeshStep("v2_return")

\* loadV2: return model
V2Return ==
  /\ pc = "v2_return"
  /\ UNCHANGED <<op, path, flip, file, pos, hdr, seqs, flatFrames, frameBounds,
                 submeshes, cur, surfaces, model, tex, asset, run, prev>>
  /\ Return(Ok(model))

\* ------------------------------------------------------------- loadCurrent

\* The index triples of loadCurrent stored as they come in the stream.
TrianglesUnswapped(f, p, ntri) == [t \in 1 .. ntri |-> Vec3At(f, p, 3 * (t - 1) + 1)]

\* Index triples at cursor p: the second index read is stored third and the
\* third index read is stored second.
ReadTrianglesSwapped(f, p, ntri) ==
  [t \in 1 .. ntri |->
     <<Cell(f, p, 3 * (t - 1) + 1), Cell(f, p, 3 * (t - 1) + 3),
       Cell(f, p, 3 * (t - 1) + 2)>>]

\* loadCurrent: origin, scale, the (count, offset) pairs, the sequence table
\* at its offset, the flat frames, and the seek to the submesh table.
CurHeader ==
  /\ pc = "loadCurrent"
  /\ UNCHANGED <<op, path, flip, file, surfaces, tex, asset, run, prev>>
  /\ IF ~CanRead(file, pos, 17)
       THEN Return(LoadCatch)
            /\ UNCHANGED <<pos, hdr, seqs, flatFrames, frameBounds, submeshes,
                           cur, model>>
       ELSE LET origin == Vec3At(file, pos, 1)
                scale == Cell(file, pos, 4)
                sequence_count == Cell(file, pos, 12)
                sequence_offset == Cell(file, pos, 13)
                submesh_count == Cell(file, pos, 14)
                submesh_offset == Cell(file, pos, 15)
            IN  IF \/ ~CanSeek(file, sequence_offset)
                   \/ ~CanRead(file, sequence_offset, 4 * sequence_count)
                   \/ ~CanSeek(file, submesh_offset)
                  THEN Return(LoadCatch)
                       /\ UNCHANGED <<pos, hdr, seqs, flatFrames, frameBounds,
                                      submeshes, cur, model>>
                  ELSE /\ seqs' = ReadSeqs(file, sequence_offset, sequence_count)
                       /\ flatFrames' = FlattenSeqs(seqs')
                       /\ frameBounds' = [x \in 1 .. TotalFrames(seqs') |-> EmptyBounds]
                       /\ hdr' = [hdr EXCEPT !.origin = origin, !.scale = scale,
                                             !.num_submeshes = submesh_count,
                                             !.num_sequences = sequence_count,
                                             !.Ftotal = TotalFrames(seqs')]
                       /\ submeshes' = <<>>
                       /\ model' = NewModel
                       /\ pos' = submesh_offset
                       /\ cur' = [cur EXCEPT !.smi = 0]
                       /\ pc' = IF submesh_count > 0 THEN "cur_descriptor"
                                ELSE IF hdr'.Ftotal > 0 THEN "cur_frames"
                                ELSE "cur_return"
                       /\ result' = result

\* loadCurrent: the ident and the counts and offsets of submesh smi.
CurDescriptor ==
  /\ pc = "cur_descriptor"
  /\ UNCHANGED <<op, path, flip, file, hdr, seqs, flatFrames, frameBounds,
                 surfaces, model, tex, asset, run, prev>>
  /\ IF ~CanRead(file, pos, 1)
       THEN Return(LoadCatch) /\ UNCHANGED <<pos, cur, submeshes>>
     ELSE IF SubmeshIdentBad(Cell(file, pos, 1))
       THEN Return(Error("Unknown BVM submesh ident: ", Cell(file, pos, 1)))
            /\ UNCHANGED <<pos, cur, submeshes>>
     ELSE IF ~CanRead(file, pos + 1, 7)
       THEN Return(LoadCatch) /\ UNCHANGED <<pos, cur, submeshes>>
     ELSE /\ pos' = pos + 8
          /\ submeshes' = Append(submeshes,
               [name |-> SubmeshName(cur.smi),
                num_skins |-> Cell(file, pos, 2),
                skin_offset |-> Cell(file, pos, 3),
                num_verts |-> Cell(file, pos, 4),
                uv_offset |-> Cell(file, pos, 5),
                num_indices |-> Cell(file, pos, 6),
                indice_offset |-> Cell(file, pos, 7),
                sequence_offset |-> Cell(file, pos, 8)])
          /\ cur' = [cur EXCEPT
               !.smi = IF cur.smi + 1 < hdr.num_submeshes THEN cur.smi + 1 ELSE 0]
          /\ pc' = IF cur.smi + 1 < hdr.num_submeshes
                     THEN "cur_descriptor" ELSE "cur_submesh"
          /\ result' = result

\* loadCurrent: the start of the second pass over submesh smi: an empty skin
\* list and, if the submesh has skins, the seek to its skin chain.
CurSubmesh ==
  /\ pc = "cur_submesh"
  /\ UNCHANGED <<op, path, flip, file, hdr, seqs, flatFrames, frameBounds,
                 submeshes, surfaces, model, tex, asset, run, prev>>
  /\ LET smesh == submeshes[cur.smi + 1]
     IN  IF smesh.num_skins > 0 /\ ~CanSeek(file, smesh.skin_offset)
           THEN Return(LoadCatch) /\ UNCHANGED <<pos, cur>>
           ELSE /\ pos' = IF smesh.num_skins > 0 THEN smesh.skin_offset ELSE pos
                /\ cur' = [cur EXCEPT
                     !.num_skins = smesh.num_skins,
                     !.num_verts = smesh.num_verts,
                     !.num_indices = smesh.num_indices,
                     !.sm_skins = <<>>,
                     !.sk = 0]
                /\ pc' = IF smesh.num_skins > 0 THEN "cur_skin" ELSE "cur_geometry"
                /\ result' = result

\* loadCurrent: embedded skin block sk of submesh smi.
CurSkin ==
  /\ pc = "cur_skin"
  /\ UNCHANGED <<op, path, flip, file, hdr, seqs, flatFrames, frameBounds,
                 submeshes, surfaces, model, tex, asset, run, prev>>
  /\ IF ~CanRead(file, pos, 1)
       THEN Return(LoadCatch) /\ UNCHANGED <<pos, cur>>
     ELSE IF SkinIdentBad(Cell(file, pos, 1))
       THEN Return(Error("Unknown BVM skin ident: ", Cell(file, pos, 1)))
            /\ UNCHANGED <<pos, cur>>
     ELSE IF ~CanRead(file, pos + 1, 4)
       THEN Return(LoadCatch) /\ UNCHANGED <<pos, cur>>
     ELSE /\ pos' = pos + 5
          /\ cur' = [cur EXCEPT
               !.sm_skins = Append(@, SkinPath(NameOf(Cell(file, pos, 2)))),
               !.sk = @ + 1]
          /\ pc' = IF cur'.sk < cur.num_skins THEN "cur_skin" ELSE "cur_geometry"
          /\ result' = result

\* The seek to the UVs left out: the read goes on where the cursor is.
SeekUVMissing(smesh) == pos

\* reader.seekFromBegin(smesh.uv_offset): the cursor after the seek.
SeekUV(smesh) == smesh.uv_offset

\* loadCurrent: the surface and its skins, then the UVs, the triangles and the
\* per-frame positions of submesh smi, each at its own offset.
CurGeometry ==
  /\ pc = "cur_geometry"
  /\ UNCHANGED <<op, path, flip, file, hdr, seqs, flatFrames, submeshes, tex,
                 asset, run, prev>>
  /\ LET smesh == submeshes[cur.smi + 1]
         nv == smesh.num_verts
         ntri == NumTriples(smesh.num_indices)
         uvpos == SeekUV(smesh)
         perFramePos == ReadFrames(file, smesh.sequence_offset, seqs, nv,
                                   hdr.origin, hdr.scale)
     IN  IF \/ ~CanSeek(file, uvpos)
            \/ ~CanRead(file, uvpos, 2 * nv)
            \/ ~CanSeek(file, smesh.indice_offset)
            \/ ~CanRead(file, smesh.indice_offset, 3 * ntri)
            \/ ~CanSeek(file, smesh.sequence_offset)
            \/ ~CanRead(file, smesh.sequence_offset, 6 * nv * hdr.Ftotal)
           THEN Return(LoadCatch)
                /\ UNCHANGED <<pos, frameBounds, cur, surfaces, model>>
           ELSE /\ pos' = smesh.sequence_offset + 6 * nv * hdr.Ftotal
                /\ model' = LoadSkins(
                              AddSurface(model, smesh.name, hdr.Ftotal),
                              Len(model.surfaces) + 1, cur.sm_skins)
                /\ surfaces' = Append(surfaces,
                     [name |-> smesh.name,
                      triangles |-> ReadTrianglesSwapped(file, smesh.indice_offset, ntri),
                      uvs |-> [i \in 1 .. nv |-> Vec2At(file, uvpos, 2 * (i - 1) + 1)],
                      perFramePos |-> perFramePos,
                      surface |-> Len(model.surfaces) + 1])
                /\ frameBounds' = AddToFrameBounds(frameBounds, perFramePos)
                /\ cur' = [cur EXCEPT !.smi = @ + 1, !.fi = 0, !.si = 0]
                /\ pc' = IF SubmeshLoopContinues(cur'.smi, hdr.num_submeshes)
                           THEN "cur_submesh"
                         ELSE IF hdr.Ftotal > 0 THEN "cur_frames"
                         ELSE "cur_return"
                /\ result' = result

\* loadCurrent: the loop that adds the frames.
CurAddFrame == pc = "cur_frames" /\ AddFrameStep("cur_meshes", "cur_return")

\* loadCurrent: the loops that add each surface's per-frame mesh.
CurAddMesh == pc = "cur_meshes" /\ AddMeshStep("cur_return")

\* loadCurrent: return model
CurReturn ==
  /\ pc = "cur_return"
  /\ UNCHANGED <<op, path, flip, file, pos, hdr, seqs, flatFrames, frameBounds,
                 submeshes, cur, surfaces, model, tex, asset, run, prev>>
  /\ Return(Ok(model))

\* ---------------------------------------------------------------- canParse

\* kdl::path_to_lower on the extension of a path
ToLower(ext) ==
  CASE ext = ".BVM" -> ".bvm"
    [] ext = ".Bvm" -> ".bvm"
    [] ext = ".MDL" -> ".mdl"
    [] OTHER -> ext

PathExtensions == {".bvm", ".BVM", ".Bvm", ".mdl", ".MDL", ".bvmx", ""}

\* The byte sources canParse is tried on: every ident and version, whole or
\* cut short, alone or followed by a body.
SniffFiles ==
  {SubSeq(<<id, v, 0>>, 1, n) :
     id \in {VTXMDL_IDENT, BadIdent, -1},
     v \in {1, 2, 3} \cup OtherVersions,
     n \in 0 .. 3}

InitCanParse ==
  /\ op = "canParse"
  /\ path \in PathExtensions
  /\ file \in SniffFiles
  /\ asset = NoAsset
  /\ flip = FALSE
  /\ pc = "canParse"
  /\ run = 1
  /\ prev = NoResult
  /\ InitLocals

\* BvmLoader::canParse(path, reader): reader is the function's own copy, so
\* the cursor of the caller's reader (pos) stays where it is.
CanParse ==
  /\ pc = "canParse"
  /\ UNCHANGED <<op, path, flip, file, pos, hdr, seqs, flatFrames, frameBounds,
                 submeshes, cur, surfaces, model, tex, asset, run, prev>>
  /\ IF ToLower(path) # ".bvm"
       THEN Return(Bool(FALSE))
     ELSE IF ~CanRead(file, 0, 2)
       THEN Return(Propagated(ReaderMessage))
     ELSE Return(Bool(Cell(file, 0, 1) = VTXMDL_IDENT
                        /\ Cell(file, 0, 2) <= VTXMDL_CURRENTVERSION))

\* ---------------------------------------------------------- readBtfTexture

\* The conversion left out: the halves of the signed value.
SignedHalves(x) == [hi |-> x \div 65536, lo |-> x % 65536]

\* (uint32) of an int: the two 16-bit halves of the 32-bit pattern.
ToUint32(x) ==
  IF x >= 0
    THEN [hi |-> x \div 65536, lo |-> x % 65536]
    ELSE LET y == (x + 2147483647) + 1
         IN  [hi |-> 32768 + y \div 65536, lo |-> y % 65536]

\* a > b on uint32
Uint32Greater(a, b) == a.hi > b.hi \/ (a.hi = b.hi /\ a.lo > b.lo)

\* Btf::Version(major, minor): (uint32)(major * 100 + minor * 10)
Version(major, minor) == ToUint32(major * 100 + minor * 10)

\* Btf::HighestVersion()
HighestVersion == Version(BTF_VER_MAJOR, BTF_VER_MINOR)

\* static_cast<int32_t>(meta_q2.value): the float field holds tenths.
TruncToInt(tenths) == IF tenths >= 0 THEN tenths \div 10 ELSE -((-tenths) \div 10)

\* catch (const Exception& e) { return Error{e.what()}; } of readBtfTexture
BtfCatch == Error(ReaderMessage, 0)

\* The mip buffer sized for three bytes per pixel (GL_RGB).
MipBufferSizeRGB(width, height) == width * height * 3

\* mdl::setMipBufferSize(buffers, 1, width, height, GL_RGBA): bytes of mip 0
MipBufferSize(width, height) == width * height * 4

\* Pixel byte number i (0-based) of a generated texture.
PixelByte(i) == (5 * i + 1) % 256

\* The frame block: ident, sha1, reserved bytes, pixels.
FrameBlockCells(a) ==
  <<IdentCell(a.badFrame, BTF_FRAMEID)>>
    \o [i \in 1 .. SHA1_BUFFER_SIZE |-> 170]
    \o [i \in 1 .. ReservedBytes |-> 0]
    \o [i \in 1 .. a.width * a.height * 4 |-> PixelByte(i - 1)]

\* The metadata block: the type tag and the payload.
MetaBlockCells(a) ==
  CASE a.meta = "q2" -> <<BTF_METAQ2, 5, 7, 25, 1, 0, 0>>
    [] a.meta = "spr" -> <<BTF_METASPR, 1, 2>>
    [] a.meta = "other" -> <<BadIdent, 9>>
    [] OTHER -> <<>>

HeaderCellsBtf == 13

\* The image of texture a: header_t, texinfo_t, then the frame block and
\* the metadata block in either order.
FullTexFile(a) ==
  LET frame == FrameBlockCells(a)
      meta == MetaBlockCells(a)
      frameOff == HeaderCellsBtf + (IF a.metaFirst THEN Len(meta) ELSE 0)
      metaOff == HeaderCellsBtf + (IF a.metaFirst THEN 0 ELSE Len(frame))
  IN  <<IdentCell(a.badIdent, BTF_IDENT), a.major, a.minor,
        a.width, a.height, a.compression, 0, 0, a.frame_count,
        IF a.noFrameData THEN 0 ELSE Len(frame), frameOff,
        Len(meta), metaOff>>
        \o (IF a.metaFirst THEN meta \o frame ELSE frame \o meta)

TexFileOf(a) ==
  IF a.cut >= 0 /\ a.cut < Len(FullTexFile(a))
    THEN SubSeq(FullTexFile(a), 1, a.cut)
    ELSE FullTexFile(a)

PlainTex ==
  [width |-> 1, height |-> 2, compression |-> 0, major |-> 1, minor |-> 0,
   frame_count |-> 1, noFrameData |-> FALSE, meta |-> "q2", metaFirst |-> FALSE,
   badIdent |-> FALSE, badFrame |-> FALSE, cut |-> -1]

\* The values of ECompression: None, DXT1, DXT5, BC4, BC5.
ECompression == 0 .. 4

MetaKinds == {"none", "q2", "spr", "other"}

\* Every size, compression kind, metadata block and block order.
TexShapes ==
  {[PlainTex EXCEPT !.width = w, !.height = h, !.compression = c,
                    !.meta = m, !.metaFirst = mf] :
     w \in 0 .. MaxWidth, h \in 0 .. MaxHeight, c \in ECompression,
     m \in MetaKinds, mf \in BOOLEAN}

\* Headers: every ident, version, frame count, frame data size, frame ident.
TexHeaders ==
  {[PlainTex EXCEPT !.badIdent = bi, !.major = ma, !.minor = mi,
                    !.frame_count = fc, !.noFrameData = nfd, !.badFrame = bf,
                    !.compression = c] :
     bi \in BOOLEAN, ma \in {-32768, -1, 0, 1, 2, 32767},
     mi \in {-32768, -10, -1, 0, 1, 10, 11, 32767},
     fc \in {-32768, -1, 0, 1, 2, 32767}, nfd \in BOOLEAN, bf \in BOOLEAN,
     c \in {0, 1}}

\* Textures cut short at every length.
TexTruncations ==
  UNION {{[PlainTex EXCEPT !.meta = m, !.metaFirst = mf, !.cut = c] :
            mf \in BOOLEAN,
            c \in 0 .. Len(FullTexFile([PlainTex EXCEPT !.meta = m])) - 1} :
         m \in MetaKinds}

TexAssets == TexShapes \cup TexHeaders \cup TexTruncations

InitBtf ==
  /\ op = "readBtf"
  /\ asset \in TexAssets
  /\ file = TexFileOf(asset)
  /\ flip \in BOOLEAN
  /\ path = ""
  /\ pc = "readBtf"
  /\ run = 1
  /\ prev = NoResult
  /\ InitLocals

\* readBtfTexture: header_t with its checks, texinfo_t with the frame count
\* check, the sizes and offsets with the frame data size check.
BtfHeader ==
  /\ pc = "readBtf"
  /\ UNCHANGED <<op, path, flip, file, hdr, seqs, flatFrames, frameBounds,
                 submeshes, cur, surfaces, model, asset, run, prev>>
  /\ IF ~CanRead(file, pos, 1)
       THEN Return(BtfCatch) /\ UNCHANGED <<pos, tex>>
     ELSE IF Cell(file, pos, 1) # BTF_IDENT
       THEN Return(Error("unknown btf identifier: ", Cell(file, pos, 1)))
            /\ UNCHANGED <<pos, tex>>
     ELSE IF ~CanRead(file, pos + 1, 2)
       THEN Return(BtfCatch) /\ UNCHANGED <<pos, tex>>
     ELSE IF Uint32Greater(Version(Cell(file, pos, 2), Cell(file, pos, 3)),
                           HighestVersion)
       THEN Return(Error("unsupported btf version: ", Cell(file, pos, 2)))
            /\ UNCHANGED <<pos, tex>>
     ELSE IF ~CanRead(file, pos + 3, 6)
       THEN Return(BtfCatch) /\ UNCHANGED <<pos, tex>>
     ELSE IF Cell(file, pos, 9) <= 0
       THEN Return(Error("frames are missing? ", Cell(file, pos, 9)))
            /\ UNCHANGED <<pos, tex>>
     ELSE IF ~CanRead(file, pos + 9, 4)
       THEN Return(BtfCatch) /\ UNCHANGED <<pos, tex>>
     ELSE IF Cell(file, pos, 10) = 0
       THEN Return(Error("no framedata", 0)) /\ UNCHANGED <<pos, tex>>
     ELSE /\ pos' = pos + 13
          /\ tex' = [tex EXCEPT
               !.ver_major = Cell(file, pos, 2),
               !.ver_minor = Cell(file, pos, 3),
               !.width = Cell(file, pos, 4),
               !.height = Cell(file, pos, 5),
               !.compressiontype = Cell(file, pos, 6),
               !.frame_count = Cell(file, pos, 9),
               !.framedatasize = Cell(file, pos, 10),
               !.framedataoffset = Cell(file, pos, 11),
               !.metadatasize = Cell(file, pos, 12),
               !.metadataoffset = Cell(file, pos, 13)]
          /\ pc' = "btf_metadata"
          /\ result' = result

\* readBtfTexture: the metadata block, if any: the type tag and, for the two
\* known tags, the leading fields.
BtfMetadata ==
  /\ pc = "btf_metadata"
  /\ UNCHANGED <<op, path, flip, file, hdr, seqs, flatFrames, frameBounds,
                 submeshes, cur, surfaces, model, asset, run, prev>>
  /\ IF tex.metadatasize = 0
       THEN /\ pc' = "btf_frame"
            /\ UNCHANGED <<pos, tex, result>>
     ELSE IF ~CanSeek(file, tex.metadataoffset)
             \/ ~CanRead(file, tex.metadataoffset, 1)
       THEN Return(BtfCatch) /\ UNCHANGED <<pos, tex>>
     ELSE LET mpos == tex.metadataoffset
              metadatatype == Cell(file, mpos, 1)
              fields == CASE metadatatype = BTF_METAQ2 -> 3
                          [] metadatatype = BTF_METASPR -> 2
                          [] OTHER -> 0
          IN  IF ~CanRead(file, mpos + 1, fields)
                THEN Return(BtfCatch) /\ UNCHANGED <<pos, tex>>
                ELSE /\ pos' = mpos + 1 + fields
                     /\ tex' = IF metadatatype = BTF_METAQ2
                                 THEN [tex EXCEPT
                                         !.surfaceflags = Cell(file, mpos, 2),
                                         !.contents = Cell(file, mpos, 3),
                                         !.value = Cell(file, mpos, 4)]
                                 ELSE tex
                     /\ pc' = "btf_frame"
                     /\ result' = result

\* readBtfTexture: the frame block at framedataoffset: the frame ident, the
\* hash, the reserved bytes, and width * height * 4 bytes into mip 0.
BtfFrame ==
  /\ pc = "btf_frame"
  /\ UNCHANGED <<op, path, flip, file, hdr, seqs, flatFrames, frameBounds,
                 submeshes, cur, surfaces, model, asset, run, prev>>
  /\ LET fpos == tex.framedataoffset
         size == MipBufferSize(tex.width, tex.height)
         skip == 1 + SHA1_BUFFER_SIZE + ReservedBytes
     IN  IF ~CanSeek(file, fpos) \/ ~CanRead(file, fpos, 1)
           THEN Return(BtfCatch) /\ UNCHANGED <<pos, tex>>
         ELSE IF Cell(file, fpos, 1) # BTF_FRAMEID
           THEN Return(Error("invalid frame data: ", Cell(file, fpos, 1)))
                /\ UNCHANGED <<pos, tex>>
         ELSE IF ~CanRead(file, fpos + 1, SHA1_BUFFER_SIZE + ReservedBytes + size)
           THEN Return(BtfCatch) /\ UNCHANGED <<pos, tex>>
         ELSE /\ pos' = fpos + skip + size
              /\ tex' = [tex EXCEPT
                   !.buffers = <<[i \in 1 .. size |-> Cell(file, fpos + skip, i)]>>]
              /\ pc' = "btf_finish"
              /\ result' = result

\* std::swap(rowTop[i], rowBot[i]) for every i < rowBytes, rows y and h - 1 - y
SwapRows(data, rowBytes, y, h) ==
  [i \in 1 .. Len(data) |->
     LET row == (i - 1) \div rowBytes
     IN  IF row = y THEN data[i + (h - 1 - y - y) * rowBytes]
         ELSE IF row = h - 1 - y THEN data[i - (h - 1 - y - y) * rowBytes]
         ELSE data[i]]

\* for (size_t y = 0; y < h / 2; ++y) swap rows y and h - 1 - y
RECURSIVE FlipFrom(_, _, _, _)
FlipFrom(data, rowBytes, h, y) ==
  IF y < h \div 2
    THEN FlipFrom(SwapRows(data, rowBytes, y, h), rowBytes, h, y + 1)
    ELSE data

\* The whole buffer reversed byte by byte.
ReverseBytes(data, width, height) == [i \in 1 .. Len(data) |-> data[Len(data) + 1 - i]]

\* The vertical flip of the mip buffer.
VerticalFlip(data, width, height) == FlipFrom(data, width * 4, height, 0)

\* readBtfTexture: the optional vertical flip and the returned Texture.
BtfFinish ==
  /\ pc = "btf_finish"
  /\ UNCHANGED <<op, path, flip, file, pos, hdr, seqs, flatFrames, frameBounds,
                 submeshes, cur, surfaces, model, asset, run, prev>>
  /\ tex' = [tex EXCEPT
       !.buffers = IF flip
                     THEN <<VerticalFlip(tex.buffers[1], tex.width, tex.height)>>
                     ELSE tex.buffers]
  /\ Return(OkTexture(
       [width |-> tex.width, height |-> tex.height, format |-> "GL_RGBA",
        mask |-> "Off", flags |-> tex.surfaceflags, contents |-> tex.contents,
        lightvalue |-> TruncToInt(tex.value), buffers |-> tex'.buffers]))

\* ------------------------------------------------------- the specification

Init == InitLoad \/ InitCanParse \/ InitBtf

Next ==
  \/ Load
  \/ V1Parse \/ V1Surface \/ V1AddFrame \/ V1AddMesh
  \/ V2Header \/ V2Submesh \/ V2Skin \/ V2Geometry \/ V2AddFrame \/ V2AddMesh \/ V2Return
  \/ CurHeader \/ CurDescriptor \/ CurSubmesh \/ CurSkin \/ CurGeometry
  \/ CurAddFrame \/ CurAddMesh \/ CurReturn
  \/ CanParse
  \/ BtfHeader \/ BtfMetadata \/ BtfFrame \/ BtfFinish

Spec == Init /\ [][Next]_vars

\* ------------------------------------------- two images of one v3 content

\* The physical orders of the sections of a v3 image of asset a.
Layouts(a) == [rev : BOOLEAN, rot : 0 .. Len(SectionsV3(a)) - 1]

\* v3 contents with sequences of unequal length and submeshes with unequal
\* numbers of skins.
MixedAssets ==
  {[NoAsset EXCEPT !.version = VTXMDL_CURRENTVERSION,
                   !.seqFrames = sf, !.subSkins = ss] :
     sf \in {<<MaxFrames, 1>>, <<0, MaxFrames>>},
     ss \in {<<1, 0>>, <<0, MaxSkins>>}}

PermAssets ==
  {a \in PlainAssets : a.version = VTXMDL_CURRENTVERSION} \cup MixedAssets

\* load is called on the image of a v3 content in canonical order.
InitPerm ==
  /\ op = "load"
  /\ asset \in PermAssets
  /\ file = FileOf(asset)
  /\ path = ""
  /\ flip = FALSE
  /\ pc = "load"
  /\ run = 1
  /\ prev = NoResult
  /\ InitLocals

\* A second loader is constructed on an image of the same content whose
\* sections are stored in another physical order, and load is called on it.
Reload ==
  /\ op = "load"
  /\ pc = "done"
  /\ run = 1
  /\ \E lay \in Layouts(asset) :
       /\ asset' = [asset EXCEPT !.lay = lay]
       /\ file' = FileOf(asset')
  /\ run' = 2
  /\ prev' = result
  /\ pc' = "load"
  /\ hdr' = NoHdr
  /\ seqs' = <<>>
  /\ flatFrames' = <<>>
  /\ frameBounds' = <<>>
  /\ submeshes' = <<>>
  /\ cur' = NoCur
  /\ surfaces' = <<>>
  /\ model' = NoModel
  /\ result' = NoResult
  /\ pos' = 0
  /\ UNCHANGED <<op, path, flip, tex>>

NextPerm ==
  \/ Load
  \/ CurHeader \/ CurDescriptor \/ CurSubmesh \/ CurSkin \/ CurGeometry
  \/ CurAddFrame \/ CurAddMesh \/ CurReturn
  \/ Reload

SpecPerm == InitPerm /\ [][NextPerm]_vars

\* ------------------------------------------------------------- properties

\* load has returned.
Loaded == op = "load" /\ pc = "done"

\* load has returned a model.
Decoded == Loaded /\ result.kind = "ok"

\* The image is in the v1 layout (no sequence table at all).
IsV1 == asset.version = 1

\* The total of the frame counts the sequence table of the image declares.
DeclaredFrames == SumSeq(asset.seqFrames)

\* readBtfTexture has returned.
BtfDone == op = "readBtf" /\ pc = "done"

\* The texture image is whole, with a valid ident and a supported version.
BtfSupported ==
  /\ ~asset.badIdent
  /\ ~Uint32Greater(Version(asset.major, asset.minor), HighestVersion)
  /\ asset.cut = -1

\* The cells of the image after the frame ident, the hash and the reserved
\* bytes of the frame block.
PixelsOfImage ==
  LET first == Cell(file, 0, 11) + 1 + SHA1_BUFFER_SIZE + ReservedBytes
  IN  SubSeq(file, first + 1, first + asset.width * asset.height * 4)

\* C1: a model image with no sequences (every v1 image, a v2 or v3 image
\* whose sequence count is 0) decodes to a model with exactly one frame,
\* named "staticpose", and exactly one mesh on each surface.
C1_ZeroSequencesGiveStaticPose ==
  Decoded /\ (IsV1 \/ Len(asset.seqFrames) = 0) =>
    /\ Len(result.model.frames) = 1
    /\ result.model.frames[1].name = "staticpose"
    /\ \A s \in 1 .. Len(result.model.surfaces) :
         Len(result.model.surfaces[s].meshes) = 1

\* C2: a model image whose N >= 1 sequences declare F frames in total
\* (F = 1 for a v1 image) decodes to a model with F frames, and each surface
\* has F meshes, the one at place i for flat frame i - 1.
C2_FramesAndMeshesPerSurface ==
  Decoded /\ (IsV1 \/ Len(asset.seqFrames) >= 1) =>
    LET F == IF IsV1 THEN 1 ELSE DeclaredFrames
    IN  /\ Len(result.model.frames) = F
        /\ \A i \in 1 .. F : result.model.frames[i].index = i - 1
        /\ \A s \in 1 .. Len(result.model.surfaces) :
             /\ Len(result.model.surfaces[s].meshes) = F
             /\ \A i \in 1 .. F :
                  result.model.surfaces[s].meshes[i].frame = i - 1

\* A v3 image of two sequences with three frames in total and two submeshes
\* has been decoded.
C2_Witness ==
  /\ Decoded
  /\ asset.version = VTXMDL_CURRENTVERSION
  /\ Len(asset.seqFrames) = 2
  /\ DeclaredFrames = 3
  /\ Len(result.model.surfaces) = 2
  /\ Len(result.model.surfaces[2].meshes) = 3

\* C3: every surface of a returned model has at least one skin; a v2 or v3
\* submesh has one skin more than it has embedded skin blocks, so one skin
\* when it has none.
C3_EverySurfaceHasASkin ==
  Decoded =>
    \A s \in 1 .. Len(result.model.surfaces) :
      /\ Len(result.model.surfaces[s].skins) >= 1
      /\ ~IsV1 => Len(result.model.surfaces[s].skins) = asset.subSkins[s] + 1

\* C4: a texture image with a valid ident, a supported version and a
\* compression kind other than None is never decoded into a Texture:
\* readBtfTexture returns an error.
C4_CompressedTextureIsRefused ==
  BtfDone /\ BtfSupported /\ asset.compression # 0 => result.kind = "error"

\* C5 as the spec states it: for a whole texture image with a valid ident
\* and a supported version, a frame count <= 0 gives the missing-frames
\* error, and a frame count > 0 with a valid frame ident gives a Texture
\* whose single mip buffer is width * height * 4 bytes long and holds the
\* bytes after the frame ident, the hash and the reserved bytes.
C5_AsStated ==
  BtfDone /\ BtfSupported =>
    /\ asset.frame_count <= 0 =>
         result = Error("frames are missing? ", asset.frame_count)
    /\ asset.frame_count > 0 /\ ~asset.badFrame =>
         /\ result.kind = "ok"
         /\ Len(result.texture.buffers) = 1
         /\ Len(result.texture.buffers[1]) = asset.width * asset.height * 4
         /\ ~flip => result.texture.buffers[1] = PixelsOfImage

\* C5 amended: the success case also needs a frame data size field other
\* than 0; with that field 0 and a frame count > 0 readBtfTexture returns
\* the "no framedata" error.
C5_FrameCountAndPixels ==
  BtfDone /\ BtfSupported =>
    /\ asset.frame_count <= 0 =>
         result = Error("frames are missing? ", asset.frame_count)
    /\ asset.frame_count > 0 /\ asset.noFrameData =>
         result = Error("no framedata", 0)
    /\ asset.frame_count > 0 /\ ~asset.noFrameData /\ ~asset.badFrame =>
         /\ result.kind = "ok"
         /\ Len(result.texture.buffers) = 1
         /\ Len(result.texture.buffers[1]) = asset.width * asset.height * 4
         /\ ~flip => result.texture.buffers[1] = PixelsOfImage

\* A texture of MaxWidth x MaxHeight pixels has been decoded without a flip.
C5_Witness ==
  /\ BtfDone
  /\ BtfSupported
  /\ ~flip
  /\ asset.width = MaxWidth
  /\ asset.height = MaxHeight
  /\ result.kind = "ok"
  /\ Len(result.texture.buffers[1]) = MaxWidth * MaxHeight * 4

\* C6: once load has read a valid ident and a version, it returns the
\* unsupported-version error exactly when the version is above 3, and
\* otherwise it calls exactly one decoder: loadV1 for 1, loadV2 for 2,
\* loadCurrent for 3 and for every other version, 0 and negatives included.
C6_VersionDispatch ==
  op = "load" /\ pc # "load" =>
    /\ Len(file) >= 2 /\ file[1] = VTXMDL_IDENT /\ file[2] > 3 =>
         /\ result = Error("Unknown BVM model version: ", file[2])
         /\ hdr.called = <<>>
    /\ Len(file) >= 2 /\ file[1] = VTXMDL_IDENT /\ file[2] <= 3 =>
         /\ hdr.called = <<IF file[2] = 1 THEN "loadV1"
                            ELSE IF file[2] = 2 THEN "loadV2"
                            ELSE "loadCurrent">>
         /\ result.msg # "Unknown BVM model version: "
    /\ result.msg = "Unknown BVM model version: " =>
         Len(file) >= 2 /\ file[1] = VTXMDL_IDENT /\ file[2] > 3

\* An image whose version field is exactly 3 has been decoded by loadCurrent.
C6_Witness ==
  /\ Decoded
  /\ file[2] = 3
  /\ hdr.called = <<"loadCurrent">>

\* C7: in a whole image, an altered model ident gives the unknown model
\* ident error whatever the version; an altered submesh ident, in any
\* submesh, gives the unknown submesh ident error; an altered skin ident, in
\* any skin block, gives the unknown skin ident error.  Of several altered
\* idents the one the decoder reads first decides: the model's, then in v2
\* each submesh's followed by its skins, in v3 every submesh's and then the
\* skins.  No model is returned.
C7_UnknownIdents ==
  Loaded /\ asset.cut = -1 =>
    LET skinFirst == /\ asset.badSkin[1] > 0
                     /\ \/ asset.badSub = 0
                        \/ asset.version = 2 /\ asset.badSkin[1] < asset.badSub
    IN  /\ asset.badModel =>
             result = Error("Unknown BVM model ident: ", BadIdent)
        /\ ~asset.badModel /\ asset.badSub > 0 /\ ~skinFirst =>
             result = Error("Unknown BVM submesh ident: ", BadIdent)
        /\ ~asset.badModel /\ skinFirst =>
             result = Error("Unknown BVM skin ident: ", BadIdent)

\* load has refused the altered ident of the second submesh of a v2 image
\* after it had added the first submesh to the model under construction.
C7_Witness ==
  /\ Loaded
  /\ asset.version = 2
  /\ asset.badSub = 2
  /\ Len(model.surfaces) = 1
  /\ result = Error("Unknown BVM submesh ident: ", BadIdent)

\* C8: no exception leaves load or readBtfTexture; an error result carries
\* no model and no texture; a cut image gives either the error with the
\* reader's message or, if the cut cells were never read, a value; and a cut
\* image whose last cell the decoder reads (every model image, every
\* texture image that ends with its frame block) gives the error with the
\* reader's message.
C8_ExhaustionIsAnError ==
  op \in {"load", "readBtf"} =>
    /\ result.kind # "exception"
    /\ result.kind = "error" =>
         result.model = NoModel /\ result.texture = NoTexture
    /\ pc = "done" /\ asset.cut >= 0 =>
         /\ result.kind \in {"ok", "error"}
         /\ result.kind = "error" => result = Error(ReaderMessage, 0)
         /\ op = "load" \/ asset.meta = "none" \/ asset.metaFirst =>
              result = Error(ReaderMessage, 0)

\* load has returned the reader's message for a cut image after it had added
\* a surface to the model under construction.
C8_Witness ==
  /\ Loaded
  /\ asset.cut >= 0
  /\ Len(model.surfaces) >= 1
  /\ result = Error(ReaderMessage, 0)

\* C9: canParse returns a bool for every path and every byte source: true if
\* the extension is ".bvm" in any letter case, the source holds an ident and
\* a version, the ident is the model magic and the version is at most 3;
\* false otherwise, sources too short for the two fields included.  The
\* caller's cursor is where it was.
C9_CanParseIsTotal ==
  op = "canParse" /\ pc = "done" =>
    /\ result = Bool(/\ path \in {".bvm", ".BVM", ".Bvm"}
                     /\ Len(file) >= 2
                     /\ file[1] = VTXMDL_IDENT
                     /\ file[2] <= 3)
    /\ pos = 0

\* C10: the result of loadCurrent on an image whose sections are stored in
\* any physical order equals its result on the image of the same content in
\* canonical order.
C10_SectionOrderIsImmaterial ==
  Loaded /\ run = 2 => result = prev

\* A content of two submeshes and several frames has been decoded a second
\* time from an image whose sections are stored in reverse, rotated order.
C10_Witness ==
  /\ Decoded
  /\ run = 2
  /\ asset.lay.rev
  /\ asset.lay.rot = 1
  /\ Len(result.model.surfaces) = 2
  /\ Len(result.model.frames) >= 2
  /\ Len(result.model.surfaces[1].skins) >= 1

\* The positions the decoder holds for flat frame i (1-based), over every
\* surface: the transformed positions of all vertices.
PositionsOfFrame(i) ==
  IF IsV1
    THEN {cur.verts[v] : v \in 1 .. Len(cur.verts)}
    ELSE UNION {{surfaces[s].perFramePos[i][v] :
                   v \in 1 .. Len(surfaces[s].perFramePos[i])} :
                s \in 1 .. Len(surfaces)}

\* C11: in every decoded model, whatever the revision, the bounding box of
\* frame i contains the transformed position of every vertex of every
\* surface for frame i, and every mesh vertex of frame i, and it is the
\* smallest such box: on each axis its min and its max are attained by a
\* position.
C11_FrameBoundsAreTheUnion ==
  Decoded =>
    \A i \in 1 .. Len(result.model.frames) :
      LET b == result.model.frames[i].bounds
          P == PositionsOfFrame(i)
      IN  P # {} =>
            /\ b.init
            /\ \A ax \in 1 .. 3 :
                 /\ \A p \in P : b.min[ax] <= p[ax] /\ p[ax] <= b.max[ax]
                 /\ \E p \in P : p[ax] = b.min[ax]
                 /\ \E p \in P : p[ax] = b.max[ax]
            /\ asset.idx = "ok" =>
                 \A sf \in 1 .. Len(result.model.surfaces) :
                   LET mesh == result.model.surfaces[sf].meshes[i]
                   IN  \A k \in 1 .. Len(mesh.vertices) :
                         \A ax \in 1 .. 3 :
                           /\ b.min[ax] <= mesh.vertices[k][1][ax]
                           /\ mesh.vertices[k][1][ax] <= b.max[ax]

\* A v2 image of two submeshes and several frames has been decoded, and the
\* box of its second frame spans the positions of both submeshes.
C11_Witness ==
  /\ Decoded
  /\ asset.version = 2
  /\ Len(surfaces) = 2
  /\ Len(result.model.frames) >= 2
  /\ result.model.frames[2].bounds.min # result.model.frames[2].bounds.max
  /\ \E ax \in 1 .. 3 :
       surfaces[1].perFramePos[2][1][ax] # surfaces[2].perFramePos[2][1][ax]

\* The image has no sequence table entries: the decoders take the base
\* vertex block as the one pose.
NoSequences == IsV1 \/ Len(asset.seqFrames) = 0

\* The sequence (1-based) that owns flat frame f (0-based) of a table whose
\* sequences have the frame counts sf, from sequence s on.
RECURSIVE OwnerFrom(_, _, _)
OwnerFrom(sf, f, s) ==
  IF f < sf[s] THEN s ELSE OwnerFrom(sf, f - sf[s], s + 1)

\* (raw_position + origin) * global_scale * sequence_scale for vertex v
\* (0-based) of submesh j (1-based) in flat frame f (0-based), the sequence
\* scale being 1 where the stored scale is <= 0 and where there is no
\* sequence, the raw position being that of the per-frame block where there
\* are sequences.
ExpectedPosition(j, f, v) ==
  LET raw == IF NoSequences THEN RawBase(j, v) ELSE RawFrame(j, f, v)
      stored == IF NoSequences THEN 1
                ELSE StoredScale(OwnerFrom(asset.seqFrames, f, 1))
      sequence_scale == IF stored <= 0 THEN 1 ELSE stored
  IN  [ax \in 1 .. 3 |->
         (raw[ax] + Content.origin[ax]) * Content.scale * sequence_scale]

\* C12: in every decoded model each position the decoder emits, for every
\* vertex of every submesh in every frame, is (raw_position + origin) *
\* global_scale * sequence_scale; the sequence scale is that of the sequence
\* owning the flat frame, 1 if stored <= 0, and 1 for v1 and for the v2
\* static pose; with sequences the raw position is that of the per-frame
\* block.  Every mesh vertex carries one of these positions.
C12_PositionsAreTransformed ==
  Decoded /\ asset.idx = "ok" =>
    /\ IsV1 =>
         /\ Len(cur.verts) = asset.nverts
         /\ \A v \in 1 .. Len(cur.verts) :
              cur.verts[v] = ExpectedPosition(1, 0, v - 1)
    /\ ~IsV1 =>
         \A s \in 1 .. Len(surfaces) :
           \A f \in 1 .. Len(surfaces[s].perFramePos) :
             /\ Len(surfaces[s].perFramePos[f]) = NumVertsOf(s)
             /\ \A v \in 1 .. NumVertsOf(s) :
                  surfaces[s].perFramePos[f][v] = ExpectedPosition(s, f - 1, v - 1)
    /\ \A s \in 1 .. Len(result.model.surfaces) :
         \A f \in 1 .. Len(result.model.surfaces[s].meshes) :
           LET mesh == result.model.surfaces[s].meshes[f]
               nv == IF IsV1 THEN asset.nverts ELSE NumVertsOf(s)
           IN  \A k \in 1 .. Len(mesh.vertices) :
                 \E v \in 0 .. nv - 1 :
                   mesh.vertices[k][1] = ExpectedPosition(s, f - 1, v)

\* A v2 image of three sequences, stored with a negative, a positive and a
\* zero scale, has been decoded into meshes.
C12_Witness ==
  /\ Decoded
  /\ asset.version = 2
  /\ Len(asset.seqFrames) = 3
  /\ StoredScale(1) < 0
  /\ StoredScale(2) > 1
  /\ StoredScale(3) = 0
  /\ Len(result.model.surfaces) = 1
  /\ Len(result.model.surfaces[1].meshes) = 3
  /\ Len(result.model.surfaces[1].meshes[3].vertices) >= 3

\* f as a decimal of three digits (f < 1000).
ThreeDigits(f) ==
  ToString(f \div 100) \o ToString((f \div 10) % 10) \o ToString(f % 10)

\* The names of the frames of sequences s .. N of the image, in order of
\* sequence and then of frame within the sequence.
RECURSIVE ExpectedNamesFrom(_)
ExpectedNamesFrom(s) ==
  IF s > Len(asset.seqFrames) THEN <<>>
  ELSE [f \in 1 .. asset.seqFrames[s] |-> NameOf(s) \o "_" \o ThreeDigits(f - 1)]
         \o ExpectedNamesFrom(s + 1)

\* C13: the frames of a model decoded by loadV2 or loadCurrent from an image
\* with sequences are the flattening of the sequence table, ordered by
\* sequence and then by frame within the sequence, the frame f of sequence s
\* named "{name of s}_{f in at least 3 digits}"; both decoders give the same
\* list.  Without sequences every frame is named "staticpose".
C13_FramesAreTheFlattening ==
  Decoded =>
    /\ ~NoSequences =>
         /\ [i \in 1 .. Len(result.model.frames) |-> result.model.frames[i].name]
              = ExpectedNamesFrom(1)
         /\ \A i \in 1 .. Len(flatFrames) :
              /\ flatFrames[i].seq + 1 = OwnerFrom(asset.seqFrames, i - 1, 1)
              /\ i > 1 /\ flatFrames[i].seq = flatFrames[i - 1].seq =>
                   flatFrames[i].inSeq = flatFrames[i - 1].inSeq + 1
              /\ i = 1 \/ flatFrames[i].seq # flatFrames[i - 1].seq =>
                   flatFrames[i].inSeq = 0
    /\ NoSequences =>
         \A i \in 1 .. Len(result.model.frames) :
           result.model.frames[i].name = "staticpose"

\* loadCurrent has decoded a sequence long enough for its last frame number
\* to have three digits.
C13_Witness ==
  /\ Decoded
  /\ hdr.called = <<"loadCurrent">>
  /\ Len(result.model.frames) = LongSequence
  /\ result.model.frames[LongSequence].name
       = NameOf(1) \o "_" \o ToString(LongSequence - 1)
  /\ result.model.frames[2].name = NameOf(1) \o "_001"

\* Byte i (0-based) of row y (0-based) of a buffer of rows of rowBytes bytes.
ByteOfRow(data, rowBytes, y, i) == data[y * rowBytes + i + 1]

\* C14: for every width and height (odd heights, height 1 and height 0
\* included) the buffer readBtfTexture returns with verticalFlip has, as its
\* row y, row height - 1 - y of the pixels of the image, the bytes of each
\* row in order; flipping the returned buffer once more gives the pixels of
\* the image; without verticalFlip the buffer is the pixels of the image.
C14_FlipReversesTheRows ==
  BtfDone /\ result.kind = "ok" =>
    LET buf == result.texture.buffers[1]
        rowBytes == asset.width * 4
    IN  /\ Len(buf) = Len(PixelsOfImage)
        /\ ~flip => buf = PixelsOfImage
        /\ flip =>
             /\ \A y \in 0 .. asset.height - 1 :
                  \A i \in 0 .. rowBytes - 1 :
                    ByteOfRow(buf, rowBytes, y, i)
                      = ByteOfRow(PixelsOfImage, rowBytes, asset.height - 1 - y, i)
             /\ VerticalFlip(buf, asset.width, asset.height) = PixelsOfImage

\* A texture of an odd number of rows, more than one, and of more than one
\* pixel per row has been returned flipped, and the flip has changed it.
C14_Witness ==
  /\ BtfDone
  /\ result.kind = "ok"
  /\ flip
  /\ asset.height = 3
  /\ asset.width = MaxWidth
  /\ result.texture.buffers[1] # PixelsOfImage

\* readBtfTexture has returned the unsupported-version error.
VersionRefused == result = Error("unsupported btf version: ", asset.major)

\* The texture image is whole and its ident is valid.
BtfVersionRead == BtfDone /\ ~asset.badIdent /\ asset.cut = -1

\* C15 as the spec states it: for all signed 16-bit major and minor the
\* unsupported-version error is returned exactly for the versions newer than
\* 1.0: major > 1, or major = 1 and minor > 0.
C15_AsStated ==
  BtfVersionRead =>
    (VersionRefused <=> asset.major > 1 \/ (asset.major = 1 /\ asset.minor > 0))

\* C15 amended: the unsupported-version error is returned exactly when
\* major * 100 + minor * 10, converted to an unsigned 32-bit integer, is
\* above 100, that is when the signed value is negative or above 100; for
\* major >= 0 and 0 <= minor <= 9 these are exactly the versions newer than
\* 1.0.
C15_VersionIsComparedUnsigned ==
  BtfVersionRead =>
    LET v == asset.major * 100 + asset.minor * 10
    IN  /\ VersionRefused <=> v < 0 \/ v > 100
        /\ asset.major >= 0 /\ asset.minor >= 0 /\ asset.minor <= 9 =>
             (VersionRefused <=>
                asset.major > 1 \/ (asset.major = 1 /\ asset.minor > 0))

\* A header of version -1.0, older than 1.0, has been refused.
C15_Witness ==
  /\ BtfVersionRead
  /\ asset.major = -1
  /\ asset.minor = 0
  /\ VersionRefused

\* The number of meshes attached so far to the surfaces of the model under
\* construction.
MeshesAttached ==
  SumSeq([s \in 1 .. Len(model.surfaces) |-> Len(model.surfaces[s].meshes)])

\* C16: while load runs, in loadV2 and loadCurrent a frame is in the model
\* only when every submesh has been parsed and the bounds hold its
\* positions, the frames added being those of the final bounds; a mesh is
\* attached only when all F frames are in the model, and to a frame that
\* is in the model; in loadV1 a mesh is attached only when the one frame is
\* in the model.  When load returns an error, the model under construction
\* has no frame and no mesh.
C16_BuildPhases ==
  op = "load" =>
    /\ hdr.called \in {<<"loadV2">>, <<"loadCurrent">>} =>
         /\ Len(model.frames) > 0 =>
              /\ Len(surfaces) = hdr.num_submeshes
              /\ Len(model.surfaces) = hdr.num_submeshes
              /\ \A i \in 1 .. Len(model.frames) :
                   model.frames[i].bounds = frameBounds[i]
         /\ MeshesAttached > 0 => Len(model.frames) = hdr.Ftotal
    /\ hdr.called = <<"loadV1">> /\ MeshesAttached > 0 => Len(model.frames) = 1
    /\ \A s \in 1 .. Len(model.surfaces) :
         \A k \in 1 .. Len(model.surfaces[s].meshes) :
           model.surfaces[s].meshes[k].frame < Len(model.frames)
    /\ pc = "done" /\ result.kind = "error" =>
         Len(model.frames) = 0 /\ MeshesAttached = 0

\* loadV2 is attaching meshes: both submeshes are parsed, all frames are in
\* the model, the first surface has a mesh and the second has none yet.
C16_Witness ==
  /\ op = "load"
  /\ pc = "v2_meshes"
  /\ Len(surfaces) = 2
  /\ hdr.Ftotal >= 2
  /\ Len(model.frames) = hdr.Ftotal
  /\ Len(model.surfaces[1].meshes) >= 1
  /\ Len(model.surfaces[2].meshes) = 0

\* The triangles a decoder is to store for the stream of indices idx: the
\* triples in stream order, the second and third index exchanged if swap.
ExpectedTriangles(idx, swap) ==
  [t \in 1 .. Len(idx) \div 3 |->
     LET a == idx[3 * t - 2]
         b == idx[3 * t - 1]
         c == idx[3 * t]
     IN  IF swap THEN <<a, c, b>> ELSE <<a, b, c>>]

\* The vertex stream of submesh j in flat frame f (0-based) for the stored
\* triangles tris: per triangle, in list order, the (position, uv) pairs of
\* its three indices in stored order.
ExpectedStream(j, f, tris) ==
  [k \in 1 .. 3 * Len(tris) |->
     LET idx == tris[((k - 1) \div 3) + 1][((k - 1) % 3) + 1]
     IN  <<ExpectedPosition(j, f, idx), RawUV(j, idx)>>]

\* C17: loadV1 and loadV2 store each triangle with its indices in stream
\* order (a, b, c), loadCurrent stores it as (a, c, b); in all three the
\* vertex stream of every mesh holds, for each triangle in list order, the
\* (position, uv) pairs of its three stored indices in stored order, three
\* entries per triangle.
C17_TriangleIndexOrder ==
  Decoded /\ asset.idx = "ok" =>
    LET swap == hdr.called = <<"loadCurrent">>
    IN  /\ IsV1 => cur.triangles = ExpectedTriangles(IndicesOf(asset.nverts), FALSE)
        /\ \A s \in 1 .. Len(surfaces) :
             surfaces[s].triangles = ExpectedTriangles(IndicesOf(NumVertsOf(s)), swap)
        /\ \A s \in 1 .. Len(result.model.surfaces) :
             LET nv == IF IsV1 THEN asset.nverts ELSE NumVertsOf(s)
                 tris == ExpectedTriangles(IndicesOf(nv), swap)
             IN  \A f \in 1 .. Len(result.model.surfaces[s].meshes) :
                   /\ Len(result.model.surfaces[s].meshes[f].vertices) = 3 * Len(tris)
                   /\ result.model.surfaces[s].meshes[f].vertices
                        = ExpectedStream(s, f - 1, tris)

\* loadCurrent has decoded a submesh of two triangles whose second and third
\* index differ, into meshes over several frames.
C17_Witness ==
  /\ Decoded
  /\ hdr.called = <<"loadCurrent">>
  /\ Len(surfaces) = 2
  /\ surfaces[2].triangles = <<<<0, 0, 1>>, <<1, 1, 0>>>>
  /\ Len(result.model.surfaces[2].meshes) >= 2
  /\ Len(result.model.surfaces[2].meshes[2].vertices) = 6

\* Every index of every triangle of the list tris is below n.
IndicesBelow(tris, n) ==
  \A t \in 1 .. Len(tris) : \A k \in 1 .. 3 : tris[t][k] < n

\* C18: when load is about to assemble a mesh, every vertex index of every
\* triangle is below the vertex count of its submesh, so that every lookup
\* of a position and of a uv is in range; and load returns an error, with
\* no mesh assembled, for an image whose index list names a vertex at or
\* beyond the vertex count or whose index count is no multiple of 3.
C18_IndicesAreInRange ==
  op = "load" =>
    /\ pc = "v1_surface" => IndicesBelow(cur.triangles, Len(cur.verts))
    /\ pc \in {"v2_meshes", "cur_meshes"} =>
         \A s \in 1 .. Len(surfaces) :
           /\ IndicesBelow(surfaces[s].triangles, Len(surfaces[s].uvs))
           /\ \A f \in 1 .. Len(surfaces[s].perFramePos) :
                IndicesBelow(surfaces[s].triangles, Len(surfaces[s].perFramePos[f]))
    /\ pc = "done" /\ asset.idx # "ok" =>
         result.kind = "error" /\ MeshesAttached = 0

=============================================================================
